---- MODULE Spec2Model ----
(***************************************************************************)
(* Model of the quest-scheduling engine of backend/calendar_utils.py.      *)
(* Timestamps are integer minutes counted from local midnight of           *)
(* start_date (scheduling_start_dt = 0); every datetime of a run is aware  *)
(* and carries a fixed offset, so datetime arithmetic is integer           *)
(* arithmetic on minutes.                                                  *)
(***************************************************************************)
EXTENDS Integers, Sequences, FiniteSets, TLC

\* ---------------------------------------------------------------- bounds
MaxTime == 3
MaxDuration == 2
MaxBusy == 2
MaxPlanTasks == 3
MaxEvents == 2
MaxGameTasks == 3
MaxQuestions == 6
MaxSessions == 1
MaxStatTasks == 3
MaxLines == 4
MaxWorkers == 2
MaxMeetings == 50
MaxGenerations == 2

\* ------------------------------------------------------ program constants
SlotBuffer == 1
InterTaskBreak == 10
LookaheadDays == 14
MinutesPerDay == 1440
MinutesPerHour == 60
PassThresholdPercent == 67
XpPerLevel == 500

VARIABLES
    \* _find_next_available_slot, one activation
    f_pc, search_start_dt, duration_minutes, f_busy, proposed_start,
    restarts, jumped, f_result,
    \* smart_schedule_quests, one run, and its caller
    calendar_service, plan, preferred_hour, calendar, pc, busy_slots, cursor,
    day_idx, task_idx, calls, fetched, fetch_failed, first_failed, raised,
    sync_status, aligned,
    \* fetched, fetch_failed and first_failed record what the calendar answered
    \* (the list result, a failed list call, the first task whose insert failed);
    \* aligned records the values the day alignment assigned to the cursor
    \* init_game_state, one call
    i_pc, i_plan, i_mock, i_choice, i_tasks,
    \* GameManager._grade_quiz and the pass decision, one call
    q_pc, q_quiz, q_answers, q_score, q_passed,
    \* the shared GameManager instance, its background tasks, and the last
    \* request it served (last)
    tasks, active_quiz, active_task_idx, quizzes, preloading, gen_pc, session,
    last,
    \* calculate_player_stats, one call
    st_pc, st_tasks, st_stats,
    \* parse_markdown_to_plan, one call
    p_pc, markdown_lines, p_plan,
    \* the threadpool workers that run submit_quiz
    workers,
    \* smart_schedule_quests of game_agent.py (attempt cap), one run
    c_pc, c_service, c_plan, c_hour, c_calendar, c_busy, c_cursor, c_day,
    c_task, c_attempts, c_requests, c_result,
    \* the plan generations in flight on the shared GameManager (gens) and
    \* its training-material cache
    gens, training_materials

fvars == <<f_pc, search_start_dt, duration_minutes, f_busy, proposed_start,
           restarts, jumped, f_result>>
svars == <<calendar_service, plan, preferred_hour, calendar, pc, busy_slots,
           cursor, day_idx, task_idx, calls, fetched, fetch_failed, first_failed,
           raised, sync_status, aligned>>
ivars == <<i_pc, i_plan, i_mock, i_choice, i_tasks>>
qvars == <<q_pc, q_quiz, q_answers, q_score, q_passed>>
gvars == <<tasks, active_quiz, active_task_idx, quizzes, preloading, gen_pc,
           session, last>>
tvars == <<st_pc, st_tasks, st_stats>>
pvars == <<p_pc, markdown_lines, p_plan>>
wvars == <<workers>>
cvars == <<c_pc, c_service, c_plan, c_hour, c_calendar, c_busy, c_cursor, c_day,
           c_task, c_attempts, c_requests, c_result>>
ovars == <<gens, training_materials>>
vars == <<fvars, svars, ivars, qvars, gvars, tvars, pvars, wvars, cvars, ovars>>
notSched == <<fvars, ivars, qvars, gvars, tvars, pvars, wvars, cvars, ovars>>
notFind == <<svars, ivars, qvars, gvars, tvars, pvars, wvars, cvars, ovars>>
notInitGame == <<fvars, svars, qvars, gvars, tvars, pvars, wvars, cvars, ovars>>
notQuiz == <<fvars, svars, ivars, gvars, tvars, pvars, wvars, cvars, ovars>>
notGame == <<fvars, svars, ivars, qvars, tvars, pvars, wvars, cvars, ovars>>
notStats == <<fvars, svars, ivars, qvars, gvars, pvars, wvars, cvars, ovars>>
notParse == <<fvars, svars, ivars, qvars, gvars, tvars, wvars, cvars, ovars>>
notRace == <<fvars, svars, ivars, qvars, tvars, pvars, cvars, ovars>>
notCapped == <<fvars, svars, ivars, qvars, gvars, tvars, pvars, wvars, ovars>>
notOverlap == <<fvars, svars, ivars, qvars, tvars, pvars, wvars, cvars>>

\* =========================================================== SlotFinder
\* proposed_end = proposed_start + timedelta(minutes=duration_minutes)
ProposedEnd(ps, d) == ps + d

\* if proposed_start < busy_end and proposed_end > busy_start
IsConflictStartInside(ps, pe, slot) == slot[1] <= ps /\ ps < slot[2]
IsConflict(ps, pe, slot) == ps < slot[2] /\ pe > slot[1]

\* proposed_start = busy_end + timedelta(minutes=1)
JumpToBusyStart(slot) == slot[1]
JumpPast(slot) == slot[2] + SlotBuffer

\* for busy_start, busy_end in busy_slots: ... break
\* index of the first slot in list order that conflicts, 0 when none does
RECURSIVE ScanFrom(_, _, _, _)
ScanFrom(i, ps, pe, busy) ==
    IF i > Len(busy) THEN 0
    ELSE IF IsConflict(ps, pe, busy[i]) THEN i
    ELSE ScanFrom(i + 1, ps, pe, busy)

FirstConflict(ps, pe, busy) == ScanFrom(1, ps, pe, busy)

\* while True: scan; on conflict jump and rescan; else return
FindNoScan(ps, d, busy) == <<ps, ProposedEnd(ps, d)>>
RECURSIVE FindLoop(_, _, _)
FindLoop(ps, d, busy) ==
    LET pe == ProposedEnd(ps, d)
        i == FirstConflict(ps, pe, busy)
    IN IF i = 0 THEN <<ps, pe>> ELSE FindLoop(JumpPast(busy[i]), d, busy)

find_next_available_slot(search_start, d, busy) == FindLoop(search_start, d, busy)

\* ---- one activation of _find_next_available_slot, one loop pass per step
Times == 0..MaxTime
Slots == {s \in Times \X Times : s[1] <= s[2]}
BusyLists == UNION {[1..n -> Slots] : n \in 0..MaxBusy}

FirstProposedLate(s) == s + SlotBuffer
FirstProposed(s) == s

FindInit ==
    /\ f_pc = "scan"
    /\ search_start_dt \in Times
    /\ duration_minutes \in 0..MaxDuration
    /\ f_busy \in BusyLists
    /\ proposed_start = FirstProposed(search_start_dt)
    /\ restarts = 0
    /\ jumped = {}
    /\ f_result = <<>>

\* a pass of the while loop that finds a conflict
FindRestart ==
    /\ f_pc = "scan"
    /\ LET pe == ProposedEnd(proposed_start, duration_minutes)
           i == FirstConflict(proposed_start, pe, f_busy)
       IN /\ i # 0
          /\ proposed_start' = JumpPast(f_busy[i])
          /\ jumped' = jumped \cup {i}
    /\ restarts' = restarts + 1
    /\ UNCHANGED <<f_pc, search_start_dt, duration_minutes, f_busy, f_result>>

\* a pass of the while loop that finds no conflict
FindReturn ==
    /\ f_pc = "scan"
    /\ LET pe == ProposedEnd(proposed_start, duration_minutes)
       IN /\ FirstConflict(proposed_start, pe, f_busy) = 0
          /\ f_result' = <<proposed_start, pe>>
    /\ f_pc' = "done"
    /\ UNCHANGED <<search_start_dt, duration_minutes, f_busy, proposed_start,
                   restarts, jumped>>


\* ======================================================= CalendarScheduler
Durations == {0, 30}
PrefHours == {0, 9}

\* CompletePlan.daily_plans: a sequence of DailyPlans, each a non-empty
\* sequence of Tasks (parse_markdown_to_plan flushes a day only when it holds
\* a task); a task's name is its position in day-then-task order
RECURSIVE SplitDays(_, _, _, _)
SplitDays(f, B, k, acc) ==
    IF k > Len(f) THEN acc
    ELSE LET t == [name |-> k, duration |-> f[k]]
         IN IF k = 1 \/ k \in B
            THEN SplitDays(f, B, k + 1, Append(acc, <<t>>))
            ELSE SplitDays(f, B, k + 1,
                           [acc EXCEPT ![Len(acc)] = Append(@, t)])

Plans ==
    UNION {{SplitDays(f, B, 1, <<>>) :
                f \in [1..k -> Durations], B \in SUBSET (2..k)} :
           k \in 0..MaxPlanTasks}

RECURSIVE FlatTasks(_)
FlatTasks(p) == IF p = <<>> THEN <<>> ELSE Head(p) \o FlatTasks(Tail(p))

\* events the calendar can hold inside the horizon, ordered by start time
\* (orderBy='startTime'); timed = the event has start.dateTime and
\* end.dateTime, an all-day event has only start.date and end.date
CandidateEvents ==
    << [start |-> 0,    end |-> 20,   timed |-> TRUE],
       [start |-> 0,    end |-> 1440, timed |-> FALSE],
       [start |-> 530,  end |-> 560,  timed |-> TRUE],
       [start |-> 570,  end |-> 570,  timed |-> TRUE],
       [start |-> 600,  end |-> 30000, timed |-> TRUE] >>

RECURSIVE PickFrom(_, _)
PickFrom(i, S) ==
    IF i > Len(CandidateEvents) THEN <<>>
    ELSE (IF i \in S THEN <<CandidateEvents[i]>> ELSE <<>>) \o PickFrom(i + 1, S)

Calendars ==
    {PickFrom(1, S) : S \in {T \in SUBSET (1..Len(CandidateEvents)) :
                                 Cardinality(T) <= MaxEvents}}

\* scheduling_end_dt = scheduling_start_dt + timedelta(days=len(plan.daily_plans) + 14)
HorizonEnd(p) == (Len(p) + LookaheadDays) * MinutesPerDay

\* _get_busy_slots: the (start, end) of every event that has dateTime on both
\* ends; [] when the list call raises
RECURSIVE TimedSlots(_)
TimedSlots(events) ==
    IF events = <<>> THEN <<>>
    ELSE (IF Head(events).timed
          THEN << <<Head(events).start, Head(events).end>> >> ELSE <<>>)
         \o TimedSlots(Tail(events))

get_busy_slots(ok, events) == IF ok THEN TimedSlots(events) ELSE <<>>

\* tuple order of list.sort() on (start, end) pairs
SlotLeq(a, b) == a[1] < b[1] \/ (a[1] = b[1] /\ a[2] <= b[2])

RECURSIVE InsertSorted(_, _)
InsertSorted(x, seq) ==
    IF seq = <<>> THEN <<x>>
    ELSE IF SlotLeq(x, Head(seq)) THEN <<x>> \o seq
    ELSE <<Head(seq)>> \o InsertSorted(x, Tail(seq))

RECURSIVE SortSlots(_)
SortSlots(seq) ==
    IF seq = <<>> THEN <<>> ELSE InsertSorted(Head(seq), SortSlots(Tail(seq)))

\* busy_slots.append((slot_start, slot_end)); busy_slots.sort()
AddBusy(busy, slot) == SortSlots(Append(busy, slot))

\* day_target_dt = cursor.replace(hour=preferred_hour, minute=0, ...)
\* if day_target_dt < cursor: day_target_dt += timedelta(days=1)
AlignSameDay(c, ph) ==
    (c \div MinutesPerDay) * MinutesPerDay + ph * MinutesPerHour
AlignKeepsCursor(c, ph) == c
AlignToPreferredHour(c, ph) ==
    LET day_target_dt == (c \div MinutesPerDay) * MinutesPerDay + ph * MinutesPerHour
    IN IF day_target_dt < c THEN day_target_dt + MinutesPerDay ELSE day_target_dt

\* cursor = slot_end + timedelta(minutes=10)
NextCursorNoBreak(slot) == slot[2]
NextCursor(slot) == slot[2] + InterTaskBreak

\* if not calendar_service: raise ConnectionError(...)
NeverRefuses == FALSE
NotAuthenticated == ~calendar_service

\* _create_calendar_event wraps the insert in try/except and only prints:
\* a failed insert raises nothing into smart_schedule_quests
InsertRaisesOnFailure(ok) == ~ok
InsertRaises(ok) == FALSE

ListRequest(p) ==
    [op |-> "list", task |-> 0, slot |-> <<0, HorizonEnd(p)>>]
InsertRequest(task, slot) ==
    [op |-> "insert", task |-> task.name, slot |-> slot]

\* the external calls of one pass of the task loop: one events().insert()
TaskCallsRefetch(log, task, slot, p) ==
    log \o <<ListRequest(p), InsertRequest(task, slot)>>
TaskCalls(log, task, slot, p) == Append(log, InsertRequest(task, slot))

SchedInit ==
    /\ calendar_service = FALSE
    /\ plan \in Plans
    /\ preferred_hour \in PrefHours
    /\ calendar \in Calendars
    /\ pc = "idle"
    /\ busy_slots = <<>>
    /\ cursor = 0
    /\ day_idx = 0
    /\ task_idx = 0
    /\ calls = <<>>
    /\ fetched = <<>>
    /\ fetch_failed = FALSE
    /\ first_failed = 0
    /\ raised = "none"
    /\ sync_status = "none"
    /\ aligned = <<>>

\* handle_calendar_oauth_callback: calendar_service = build(...)
Connect ==
    /\ pc = "idle"
    /\ ~calendar_service
    /\ calendar_service' = TRUE
    /\ UNCHANGED <<plan, preferred_hour, calendar, pc, busy_slots, cursor,
                   day_idx, task_idx, calls, fetched, fetch_failed, first_failed,
                   raised, sync_status,
                   aligned>>

\* smart_schedule_quests entered without a service: raise ConnectionError
ScheduleNotAuthenticated ==
    /\ pc = "idle"
    /\ NotAuthenticated
    /\ raised' = "ConnectionError"
    /\ pc' = "raised"
    /\ UNCHANGED <<calendar_service, plan, preferred_hour, calendar,
                   busy_slots, cursor, day_idx, task_idx, calls, fetched,
                   fetch_failed, first_failed, sync_status,
                   aligned>>

\* smart_schedule_quests up to the loop: horizon, _get_busy_slots, cursor
ScheduleFetch ==
    /\ pc = "idle"
    /\ ~NotAuthenticated
    /\ \E ok \in BOOLEAN :
          /\ fetch_failed' = ~ok
          /\ busy_slots' = get_busy_slots(ok, calendar)
          /\ fetched' = get_busy_slots(ok, calendar)
    /\ calls' = Append(calls, ListRequest(plan))
    /\ cursor' = 0
    /\ day_idx' = 1
    /\ task_idx' = 0
    /\ pc' = "day"
    /\ UNCHANGED <<calendar_service, plan, preferred_hour, calendar, first_failed,
                   raised, sync_status,
                   aligned>>

\* for day_plan in plan.daily_plans: align the cursor to the preferred hour
BeginDay ==
    /\ pc = "day"
    /\ day_idx <= Len(plan)
    /\ cursor' = AlignToPreferredHour(cursor, preferred_hour)
    /\ aligned' = Append(aligned, AlignToPreferredHour(cursor, preferred_hour))
    /\ IF Len(plan[day_idx]) = 0
       THEN /\ day_idx' = day_idx + 1
            /\ UNCHANGED <<task_idx, pc>>
       ELSE /\ task_idx' = 1
            /\ pc' = "task"
            /\ UNCHANGED day_idx
    /\ UNCHANGED <<calendar_service, plan, preferred_hour, calendar,
                   busy_slots, calls, fetched, fetch_failed, first_failed, raised,
                   sync_status>>

\* for task in day_plan.tasks: find a slot, insert, extend busy_slots, move
\* the cursor; ok is the outcome of events().insert().execute()
ScheduleTask ==
    /\ pc = "task"
    /\ \E ok \in BOOLEAN :
          LET task == plan[day_idx][task_idx]
              slot == find_next_available_slot(cursor, task.duration, busy_slots)
          IN /\ calls' = TaskCalls(calls, task, slot, plan)
             /\ first_failed' = IF ok \/ first_failed # 0 THEN first_failed ELSE task.name
             /\ IF InsertRaises(ok)
                THEN /\ raised' = "Exception"
                     /\ pc' = "raised"
                     /\ UNCHANGED <<busy_slots, cursor, day_idx, task_idx>>
                ELSE /\ busy_slots' = AddBusy(busy_slots, slot)
                     /\ cursor' = NextCursor(slot)
                     /\ IF task_idx < Len(plan[day_idx])
                        THEN /\ task_idx' = task_idx + 1
                             /\ UNCHANGED <<day_idx, pc>>
                        ELSE /\ day_idx' = day_idx + 1
                             /\ task_idx' = 0
                             /\ pc' = "day"
                     /\ UNCHANGED raised
    /\ UNCHANGED <<calendar_service, plan, preferred_hour, calendar, fetched,
                   fetch_failed, sync_status,
                   aligned>>

\* the loops are exhausted: smart_schedule_quests returns (None)
Return ==
    /\ pc = "day"
    /\ day_idx > Len(plan)
    /\ pc' = "returned"
    /\ UNCHANGED <<calendar_service, plan, preferred_hour, calendar,
                   busy_slots, cursor, day_idx, task_idx, calls, fetched,
                   fetch_failed, first_failed, raised, sync_status,
                   aligned>>

\* the caller's try/except around the run: "Calendar sync complete!" after a
\* return, "Calendar sync failed: ..." after any exception
ReportSync ==
    /\ pc \in {"returned", "raised"}
    /\ sync_status' = IF pc = "returned" THEN "complete" ELSE "failed"
    /\ pc' = "reported"
    /\ UNCHANGED <<calendar_service, plan, preferred_hour, calendar,
                   busy_slots, cursor, day_idx, task_idx, calls, fetched,
                   fetch_failed, first_failed, raised,
                   aligned>>

\* ========================================================= GameStateEngine
\* the status strings of the code: init_game_state writes the two labelled
\* ones ("<closed lock with key> UNLOCKED" for task 0, "<lock> LOCKED" for
\* the rest), process_quiz_submission writes the two bare ones
StatusUnlockedInit == "(lock-with-key) UNLOCKED"
StatusLockedInit == "(lock) LOCKED"
StatusUnlocked == "UNLOCKED"
StatusCompleted == "COMPLETED"

\* difficulties = ["Normal", "Hard", "Hardest"]
Difficulties == {"Normal", "Hard", "Hardest"}
\* base_xp = {"Normal": 50, "Hard": 100, "Hardest": 150}[difficulty]
BaseXp == [Normal |-> 50, Hard |-> 100, Hardest |-> 150]

\* "🔐 UNLOCKED" if task_id == 0 else "🔒 LOCKED"
InitialStatusAllLocked(task_id) == StatusLockedInit
InitialStatus(task_id) ==
    IF task_id = 0 THEN StatusUnlockedInit ELSE StatusLockedInit

\* xp *= 1.5 followed by int(xp)
BossXpRoundedUp(xp) == (3 * xp + 1) \div 2
BossXp(xp) == (3 * xp) \div 2

\* one iteration of the inner loop of init_game_state; mock is the set of
\* task names that contain "mock" (any case), choice[name] is what
\* random.choice(difficulties) returns for that task
GameTaskOf(task, task_id, day, mock, choice) ==
    LET is_boss == task.name \in mock
        difficulty == IF is_boss THEN "Hardest" ELSE choice[task.name]
        xp == BaseXp[difficulty] + task.duration \div 2
    IN [id |-> task_id,
        day |-> day,
        name |-> task.name,
        status |-> InitialStatus(task_id),
        xp_reward |-> IF is_boss THEN BossXp(xp) ELSE xp,
        type |-> IF is_boss THEN "BOSS BATTLE" ELSE "QUEST",
        difficulty |-> difficulty]

RECURSIVE InitDayTasks(_, _, _, _, _)
InitDayTasks(day_tasks, day, mock, choice, acc) ==
    IF day_tasks = <<>> THEN acc
    ELSE InitDayTasks(Tail(day_tasks), day, mock, choice,
                      Append(acc, GameTaskOf(Head(day_tasks), Len(acc), day,
                                             mock, choice)))

RECURSIVE InitDays(_, _, _, _, _)
InitDays(days, day, mock, choice, acc) ==
    IF days = <<>> THEN acc
    ELSE InitDays(Tail(days), day + 1, mock, choice,
                  InitDayTasks(Head(days), day, mock, choice, acc))

\* init_game_state(plan); a day's number is its position in daily_plans
init_game_state(p, mock, choice) == InitDays(p, 1, mock, choice, <<>>)

TaskNames(p) == 1..Len(FlatTasks(p))

\* the plans init_game_state is called with: tasks of 40 and 47 minutes in
\* every split into days
XpDurations == {40, 47}
XpPlans ==
    UNION {{SplitDays(f, B, 1, <<>>) :
                f \in [1..k -> XpDurations], B \in SUBSET (2..k)} :
           k \in 0..MaxPlanTasks}

\* ---- one call of init_game_state
InitGameInit ==
    /\ i_pc = "call"
    /\ i_plan \in XpPlans
    /\ i_mock \in {m \in SUBSET TaskNames(i_plan) : Cardinality(m) <= 1}
    /\ i_choice \in [TaskNames(i_plan) -> Difficulties]
    /\ i_tasks = <<>>

InitGame ==
    /\ i_pc = "call"
    /\ i_tasks' = init_game_state(i_plan, i_mock, i_choice)
    /\ i_pc' = "returned"
    /\ UNCHANGED <<i_plan, i_mock, i_choice>>

InitGameIdle ==
    /\ i_pc = "off"
    /\ i_plan = <<>>
    /\ i_mock = {}
    /\ i_choice = <<>>
    /\ i_tasks = <<>>

\* ------------------------------------------------------ QuizGradingEngine
\* a question as generate_quiz_for_task returns it: options and the index of
\* the correct one; task is the index of the task it was generated for
Options == {"A", "B"}
Questions(for_task) ==
    [task : {for_task}, options : {<<"A", "B">>}, correct_index : {0, 1}]

\* if i < len(user_answers) and user_answers[i] == correct_answer
\* (i is the 1-based position here)
IsMatchOrMissing(i, user_answers, question) ==
    \/ i > Len(user_answers)
    \/ user_answers[i] = question.options[question.correct_index + 1]
IsMatch(i, user_answers, question) ==
    /\ i <= Len(user_answers)
    /\ user_answers[i] = question.options[question.correct_index + 1]

\* GameManager._grade_quiz: count the positions that hold the correct option
RECURSIVE GradeFrom(_, _, _)
GradeFrom(i, user_answers, quiz_data) ==
    IF i > Len(quiz_data) THEN 0
    ELSE (IF IsMatch(i, user_answers, quiz_data[i]) THEN 1 ELSE 0)
         + GradeFrom(i + 1, user_answers, quiz_data)

grade_quiz(user_answers, quiz_data) == GradeFrom(1, user_answers, quiz_data)

\* passed = score >= QUIZ_PASS_THRESHOLD * len(quiz_data), with
\* QUIZ_PASS_THRESHOLD = 0.67; the float product is compared exactly like the
\* rational 67 * n / 100 for every quiz length the model reaches
PassedTwoThirds(score, total) == 3 * score >= 2 * total
Passed(score, total) == 100 * score >= PassThresholdPercent * total

\* ---- one call of _grade_quiz followed by the pass decision
QuizInit ==
    /\ q_pc = "call"
    /\ q_quiz \in UNION {[1..n -> Questions(0)] : n \in 0..MaxQuestions}
    /\ q_answers \in UNION {[1..m -> Options] : m \in 0..(Len(q_quiz) + 1)}
    /\ q_score = 0
    /\ q_passed = FALSE

GradeQuiz ==
    /\ q_pc = "call"
    /\ q_score' = grade_quiz(q_answers, q_quiz)
    /\ q_passed' = Passed(grade_quiz(q_answers, q_quiz), Len(q_quiz))
    /\ q_pc' = "returned"
    /\ UNCHANGED <<q_quiz, q_answers>>

QuizIdle ==
    /\ q_pc = "off"
    /\ q_quiz = <<>>
    /\ q_answers = <<>>
    /\ q_score = 0
    /\ q_passed = FALSE

\* ------------------------------------------------------------ GameManager
\* the plans a session is generated from: up to MaxGameTasks days of one
\* 30 minute task each
GamePlans ==
    {[day \in 1..n |-> <<[name |-> day, duration |-> 30]>>] :
        n \in 0..MaxGameTasks}

\* what random.choice returns over one init_game_state call; no GameManager
\* step reads a task's difficulty, so one draw per plan is kept
GameChoices(p) == {[k \in TaskNames(p) |-> "Hard"]}

\* the quizzes generate_quiz_for_task can return for a task
GameQuizSizes == {3, 4}
GameQuizzes(for_task) ==
    {[k \in 1..n |-> [task |-> for_task, options |-> <<"A", "B">>,
                      correct_index |-> 0]] : n \in GameQuizSizes}

\* the answer lists a client submits: c first answers right, the rest wrong
GameAnswers ==
    {[k \in 1..4 |-> IF k <= c THEN "A" ELSE "B"] : c \in 0..4}

\* the response to a request: its HTTP status, and for a graded submission
\* whether it passed and whether it reported game_over
Response(op, code, passed, game_over) ==
    [op |-> op, code |-> code, passed |-> passed, game_over |-> game_over]

\* a Python dict as a function on the keys it holds
EmptyDict == <<>>
DictPut(d, k, v) == (k :> v) @@ d

\* GameManager.__init__
GameInit ==
    /\ tasks = <<>>
    /\ active_quiz = <<>>
    /\ active_task_idx = -1
    /\ quizzes = EmptyDict
    /\ preloading = {}
    /\ gen_pc = "none"
    /\ session = 0
    /\ last = Response("none", 0, FALSE, FALSE)

GameIdle ==
    /\ tasks = <<>>
    /\ active_quiz = <<>>
    /\ active_task_idx = -1
    /\ quizzes = EmptyDict
    /\ preloading = {}
    /\ gen_pc = "off"
    /\ session = 0
    /\ last = Response("none", 0, FALSE, FALSE)

\* generate_and_initialize_plan up to its first yield: reset_game_state()
GeneratePlanReset ==
    /\ gen_pc \in {"none", "done"}
    /\ session < MaxSessions
    /\ tasks' = <<>>
    /\ active_quiz' = <<>>
    /\ active_task_idx' = -1
    /\ quizzes' = EmptyDict
    /\ gen_pc' = "streaming"
    /\ session' = session + 1
    /\ last' = Response("generate_plan", 200, FALSE, FALSE)
    /\ UNCHANGED preloading

\* generate_and_initialize_plan after the stream: parse, init_game_state
GeneratePlanInit ==
    /\ gen_pc = "streaming"
    /\ \E p \in GamePlans :
          \E choice \in GameChoices(p) :
             /\ tasks' = init_game_state(p, {}, choice)
             /\ gen_pc' = "preload"
    /\ UNCHANGED <<active_quiz, active_task_idx, quizzes, preloading, session,
                   last>>

\* generate_and_initialize_plan, "Preload only the first quiz":
\* self.quizzes[0] = generate_quiz_for_task(...)
GeneratePlanPreload ==
    /\ gen_pc = "preload"
    /\ IF tasks # <<>>
       THEN \E quiz \in GameQuizzes(0) : quizzes' = DictPut(quizzes, 0, quiz)
       ELSE UNCHANGED quizzes
    /\ gen_pc' = "done"
    /\ UNCHANGED <<tasks, active_quiz, active_task_idx, preloading, session,
                   last>>

\* 0 <= req.task_index < len(manager.tasks)
ValidTaskIndexInclusive(task_index, n) == 0 <= task_index /\ task_index <= n
ValidTaskIndex(task_index, n) == 0 <= task_index /\ task_index < n

\* POST /start_quiz: the router's index check, then start_new_quiz
StartQuiz(task_index) ==
    IF ~ValidTaskIndex(task_index, Len(tasks))
    THEN /\ last' = Response("start_quiz", 400, FALSE, FALSE)
         /\ UNCHANGED <<tasks, active_quiz, active_task_idx, quizzes,
                        preloading, gen_pc, session>>
    ELSE \E quiz \in GameQuizzes(task_index) :
            LET cached == IF task_index \in DOMAIN quizzes
                          THEN quizzes
                          ELSE DictPut(quizzes, task_index, quiz)
            IN /\ quizzes' = cached
               /\ active_quiz' = cached[task_index]
               /\ active_task_idx' = task_index
               /\ preloading' =
                     IF task_index + 1 < Len(tasks)
                        /\ (task_index + 1) \notin DOMAIN cached
                     THEN preloading \cup {task_index + 1}
                     ELSE preloading
               /\ last' = Response("start_quiz", 200, FALSE, FALSE)
               /\ UNCHANGED <<tasks, gen_pc, session>>

\* _preload_quiz_background, run by the event loop after it was created
PreloadQuizBackground(task_index) ==
    /\ task_index \in preloading
    /\ preloading' = preloading \ {task_index}
    /\ IF task_index < Len(tasks) /\ task_index \notin DOMAIN quizzes
       THEN \E quiz \in GameQuizzes(task_index) :
               quizzes' = DictPut(quizzes, task_index, quiz)
       ELSE UNCHANGED quizzes
    /\ UNCHANGED <<tasks, active_quiz, active_task_idx, gen_pc, session, last>>

\* process_quiz_submission, passed branch: complete the task, unlock the next
OnPassed(ts, idx) ==
    LET done == [ts EXCEPT ![idx + 1].status = StatusCompleted]
    IN IF idx + 1 < Len(ts)
       THEN [done EXCEPT ![idx + 2].status = StatusUnlocked]
       ELSE done

\* POST /quiz/submit: the router's active-quiz check, then
\* process_quiz_submission; a task dict without the key 'lives' makes
\* self.tasks[idx]['lives'] -= 1 raise KeyError (HTTP 500)
SubmitQuiz(user_answers) ==
    IF active_task_idx = -1 \/ active_quiz = <<>>
    THEN /\ last' = Response("submit", 400, FALSE, FALSE)
         /\ UNCHANGED <<tasks, active_quiz, active_task_idx, quizzes,
                        preloading, gen_pc, session>>
    ELSE LET idx == active_task_idx
             quiz_data == active_quiz
             score == grade_quiz(user_answers, quiz_data)
             passed == Passed(score, Len(quiz_data))
         IN /\ IF passed
               THEN /\ tasks' = OnPassed(tasks, idx)
                    /\ last' = Response("submit", 200, TRUE, FALSE)
               ELSE IF "lives" \in DOMAIN tasks[idx + 1]
               THEN /\ tasks' = [tasks EXCEPT ![idx + 1].lives = @ - 1]
                    /\ last' = Response("submit", 200, FALSE,
                                        tasks[idx + 1].lives - 1 <= 0)
               ELSE /\ tasks' = tasks
                    /\ last' = Response("submit", 500, FALSE, FALSE)
            /\ UNCHANGED <<active_quiz, active_task_idx, quizzes, preloading,
                           gen_pc, session>>

\* --------------------------------------------------------- PlayerStats
\* titles = ["Novice", "Apprentice", ..., "Legend"]
Titles ==
    <<"Novice", "Apprentice", "Journeyman", "Expert", "Master", "Grandmaster",
      "Legend">>

\* t['status'] == "COMPLETED"
CountsForXpAlways(t) == TRUE
CountsForXp(t) == t.status = StatusCompleted

\* sum(t['xp_reward'] for t in game_tasks if t['status'] == "COMPLETED")
RECURSIVE CompletedXp(_)
CompletedXp(game_tasks) ==
    IF game_tasks = <<>> THEN 0
    ELSE (IF CountsForXp(Head(game_tasks))
          THEN Head(game_tasks).xp_reward ELSE 0)
         + CompletedXp(Tail(game_tasks))

MinOf(a, b) == IF a <= b THEN a ELSE b

\* calculate_player_stats(game_tasks)
calculate_player_stats(game_tasks) ==
    IF game_tasks = <<>>
    THEN [current_xp |-> 0, level |-> 1, title |-> "Novice",
          xp_in_level |-> 0, xp_per_level |-> 500]
    ELSE LET current_xp == CompletedXp(game_tasks)
             level == 1 + (current_xp \div XpPerLevel)
         IN [current_xp |-> current_xp,
             level |-> level,
             title |-> Titles[MinOf(level - 1, Len(Titles) - 1) + 1],
             xp_in_level |-> current_xp % XpPerLevel,
             xp_per_level |-> XpPerLevel]

\* rewards init_game_state can write: Hard 80 minutes, boss 40 minutes,
\* Hardest 3200 minutes
StatXpRewards == {140, 255, 1750}
StatStatuses ==
    {StatusLockedInit, StatusUnlockedInit, StatusUnlocked, StatusCompleted}
StatTasks == [status : StatStatuses, xp_reward : StatXpRewards]

\* ---- one call of calculate_player_stats
StatsInit ==
    /\ st_pc = "call"
    /\ st_tasks \in UNION {[1..n -> StatTasks] : n \in 0..MaxStatTasks}
    /\ st_stats = <<>>

CalculateStats ==
    /\ st_pc = "call"
    /\ st_stats' = calculate_player_stats(st_tasks)
    /\ st_pc' = "returned"
    /\ UNCHANGED st_tasks

StatsIdle ==
    /\ st_pc = "off"
    /\ st_tasks = <<>>
    /\ st_stats = <<>>

\* ---------------------------------------------------------- PlanParser
\* a stripped line as the parser sees it: hash is line.startswith('#'), day
\* is the integer re.search(r'Day\s+(\d+)') captures (NoMatch when the search
\* fails), task tells whether task_pattern matches; the pattern starts with
\* '-', so no line that starts with '#' matches it
NoMatch == -1
HeaderDays == {0, 1, 2}
MarkdownLines ==
    {[hash |-> TRUE, day |-> d, task |-> FALSE] :
        d \in {NoMatch} \cup HeaderDays}
    \cup {[hash |-> FALSE, day |-> d, task |-> t] :
             d \in {NoMatch, 1}, t \in BOOLEAN}

\* if day_match and line.startswith('#')
IsDayHeader(line) == line.day # NoMatch /\ line.hash

\* if current_day > 0 and current_tasks
FlushesOpenDay(current_day, current_tasks) ==
    current_day > 0 /\ current_tasks # <<>>

Flush(daily_plans, current_day, current_tasks) ==
    IF FlushesOpenDay(current_day, current_tasks)
    THEN Append(daily_plans, [day |-> current_day, tasks |-> current_tasks])
    ELSE daily_plans

\* the loop over the lines and the flush after it; a Task is named after
\* the position of its line
RECURSIVE ParseLines(_, _, _, _, _)
ParseLines(lines, i, current_day, current_tasks, daily_plans) ==
    IF i > Len(lines)
    THEN Flush(daily_plans, current_day, current_tasks)
    ELSE IF IsDayHeader(lines[i])
    THEN ParseLines(lines, i + 1, lines[i].day, <<>>,
                    Flush(daily_plans, current_day, current_tasks))
    ELSE IF lines[i].task
    THEN ParseLines(lines, i + 1, current_day,
                    Append(current_tasks, [name |-> i, duration |-> 30]),
                    daily_plans)
    ELSE ParseLines(lines, i + 1, current_day, current_tasks, daily_plans)

\* parse_markdown_to_plan(markdown_text).daily_plans
parse_markdown_to_plan(lines) == ParseLines(lines, 1, 0, <<>>, <<>>)

\* ---- one call of parse_markdown_to_plan
ParseInit ==
    /\ p_pc = "call"
    /\ markdown_lines \in UNION {[1..n -> MarkdownLines] : n \in 0..MaxLines}
    /\ p_plan = <<>>

ParseMarkdown ==
    /\ p_pc = "call"
    /\ p_plan' = parse_markdown_to_plan(markdown_lines)
    /\ p_pc' = "returned"
    /\ UNCHANGED markdown_lines

ParseIdle ==
    /\ p_pc = "off"
    /\ markdown_lines = <<>>
    /\ p_plan = <<>>

\* ------------------------------------------------- concurrent submissions
\* submit_quiz is a plain def: FastAPI runs every call in a threadpool
\* worker, all on the one GameManager that get_game_manager returns, with no
\* lock; a worker's record holds the locals of its call and its response
IdleWorker ==
    [pc |-> "idle", answers |-> <<>>, idx |-> -1, quiz_data |-> <<>>,
     passed |-> FALSE, lives |-> 0, code |-> 0, game_over |-> FALSE,
     lives_left |-> 0]

\* the session after generate_and_initialize_plan has run to its end
RacePlans == {p \in GamePlans : Len(p) = 2}
RaceAnswers == {a \in GameAnswers : a[1] = a[4]}

RaceInit ==
    /\ \E p \in RacePlans : \E choice \in GameChoices(p) :
          tasks = init_game_state(p, {}, choice)
    /\ \E quiz \in GameQuizzes(0) : quizzes = DictPut(EmptyDict, 0, quiz)
    /\ active_quiz = <<>>
    /\ active_task_idx = -1
    /\ preloading = {}
    /\ gen_pc = "done"
    /\ session = 1
    /\ last = Response("generate_plan", 200, FALSE, FALSE)
    /\ workers = [w \in 1..MaxWorkers |-> IdleWorker]

\* submit_quiz up to the call of process_quiz_submission: the 400 check
SubmitEnter(w, user_answers) ==
    /\ workers[w].pc = "idle"
    /\ workers' =
          [workers EXCEPT ![w] =
              IF active_task_idx = -1 \/ active_quiz = <<>>
              THEN [@ EXCEPT !.pc = "done", !.answers = user_answers,
                             !.code = 400]
              ELSE [@ EXCEPT !.pc = "entered", !.answers = user_answers]]
    /\ UNCHANGED gvars

\* idx = self.active_task_idx
SubmitReadIdx(w) ==
    /\ workers[w].pc = "entered"
    /\ workers' = [workers EXCEPT ![w].pc = "has_idx",
                                  ![w].idx = active_task_idx]
    /\ UNCHANGED gvars

\* quiz_data = self.active_quiz
SubmitReadQuiz(w) ==
    /\ workers[w].pc = "has_idx"
    /\ workers' = [workers EXCEPT ![w].pc = "has_quiz",
                                  ![w].quiz_data = active_quiz]
    /\ UNCHANGED gvars

\* score, passed, and on the failing branch the load of
\* self.tasks[idx]['lives'], which raises KeyError when the key is missing
SubmitGrade(w) ==
    /\ workers[w].pc = "has_quiz"
    /\ LET me == workers[w]
           score == grade_quiz(me.answers, me.quiz_data)
           passed == Passed(score, Len(me.quiz_data))
       IN workers' =
             [workers EXCEPT ![w] =
                 IF passed
                 THEN [@ EXCEPT !.pc = "store", !.passed = TRUE]
                 ELSE IF "lives" \in DOMAIN tasks[me.idx + 1]
                 THEN [@ EXCEPT !.pc = "store",
                                !.lives = tasks[me.idx + 1].lives]
                 ELSE [@ EXCEPT !.pc = "done", !.code = 500]]
    /\ UNCHANGED gvars

\* the stores of the chosen branch and the response: the two status writes,
\* or the store of lives - 1 followed by the reads for lives_left and
\* game_over
SubmitStore(w) ==
    /\ workers[w].pc = "store"
    /\ LET me == workers[w]
       IN IF me.passed
          THEN /\ tasks' = OnPassed(tasks, me.idx)
               /\ workers' = [workers EXCEPT ![w].pc = "done",
                                             ![w].code = 200]
          ELSE /\ tasks' = [tasks EXCEPT ![me.idx + 1].lives = me.lives - 1]
               /\ workers' = [workers EXCEPT ![w].pc = "done",
                                             ![w].code = 200,
                                             ![w].lives_left = me.lives - 1,
                                             ![w].game_over = (me.lives - 1 <= 0)]
    /\ UNCHANGED <<active_quiz, active_task_idx, quizzes, preloading, gen_pc,
                   session, last>>

RaceIdle == workers = <<>>

\* ============================== CalendarScheduler, variant of game_agent.py
\* while not scheduled and attempts < 50
AttemptCap == 50
\* cursor = b_end + timedelta(minutes=5)
CappedJump == 5

\* a calendar of k meetings of 30 minutes from 09:00 on start_date, each
\* starting 5 minutes after the previous one ends; ordered by start time
MeetingLength == 30
Meetings(k) ==
    [i \in 1..k |->
        LET b_start == 9 * MinutesPerHour + (i - 1) * (MeetingLength + CappedJump)
        IN <<b_start, b_start + MeetingLength>>]

MeetingCounts == {0, 1, MaxMeetings - 1, MaxMeetings}

\* return strings of the variant
CappedNotAuthenticated == "Calendar not authenticated."
CappedFetchError == "Error fetching calendar"
CappedAllSynced == "All quests synced to Calendar!"

CappedInit ==
    /\ c_pc = "idle"
    /\ c_service \in BOOLEAN
    /\ c_plan \in Plans
    /\ c_hour \in PrefHours
    /\ c_calendar \in {Meetings(k) : k \in MeetingCounts}
    /\ c_busy = <<>>
    /\ c_cursor = 0
    /\ c_day = 0
    /\ c_task = 0
    /\ c_attempts = 0
    /\ c_requests = <<>>
    /\ c_result = ""

\* the function up to the day loop: authentication check, first alignment,
\* events().list(); ok is the outcome of the list call
CappedFetch ==
    /\ c_pc = "idle"
    /\ IF ~c_service
       THEN /\ c_result' = CappedNotAuthenticated
            /\ c_pc' = "returned"
            /\ UNCHANGED <<c_busy, c_cursor, c_day>>
       ELSE \E ok \in BOOLEAN :
               /\ c_cursor' = IF 0 < c_hour THEN c_hour * MinutesPerHour ELSE 0
               /\ IF ok
                  THEN /\ c_busy' = c_calendar
                       /\ c_day' = 1
                       /\ c_pc' = "day"
                       /\ UNCHANGED c_result
                  ELSE /\ c_result' = CappedFetchError
                       /\ c_pc' = "returned"
                       /\ UNCHANGED <<c_busy, c_day>>
    /\ UNCHANGED <<c_service, c_plan, c_hour, c_calendar, c_task, c_attempts,
                   c_requests>>

\* for day in plan.daily_plans: align the cursor
CappedBeginDay ==
    /\ c_pc = "day"
    /\ c_day <= Len(c_plan)
    /\ c_cursor' = AlignToPreferredHour(c_cursor, c_hour)
    /\ c_task' = 1
    /\ c_attempts' = 0
    /\ c_pc' = "attempt"
    /\ UNCHANGED <<c_service, c_plan, c_hour, c_calendar, c_busy, c_day,
                   c_requests, c_result>>

\* the position after the while loop of the current task ends
CappedAfterTask ==
    IF c_task < Len(c_plan[c_day])
    THEN /\ c_task' = c_task + 1
         /\ c_pc' = "attempt"
         /\ UNCHANGED c_day
    ELSE /\ c_day' = c_day + 1
         /\ c_task' = 0
         /\ c_pc' = "day"

\* one pass of the while loop: a conflict moves the cursor, no conflict
\* sends the insert and ends the loop
CappedAttempt ==
    /\ c_pc = "attempt"
    /\ c_attempts < AttemptCap
    /\ LET task == c_plan[c_day][c_task]
           proposed_end == c_cursor + task.duration
           i == FirstConflict(c_cursor, proposed_end, c_busy)
       IN IF i # 0
          THEN /\ c_cursor' = c_busy[i][2] + CappedJump
               /\ c_attempts' = c_attempts + 1
               /\ UNCHANGED <<c_day, c_task, c_pc, c_requests>>
          ELSE /\ c_requests' = Append(c_requests, task.name)
               /\ c_cursor' = proposed_end + InterTaskBreak
               /\ c_attempts' = 0
               /\ CappedAfterTask
    /\ UNCHANGED <<c_service, c_plan, c_hour, c_calendar, c_busy, c_result>>

\* the while condition fails with scheduled still False: the task is left
\* and the loops go on
CappedExhausted ==
    /\ c_pc = "attempt"
    /\ c_attempts >= AttemptCap
    /\ c_attempts' = 0
    /\ CappedAfterTask
    /\ UNCHANGED <<c_service, c_plan, c_hour, c_calendar, c_busy, c_cursor,
                   c_requests, c_result>>

\* return "All quests synced to Calendar!"
CappedReturn ==
    /\ c_pc = "day"
    /\ c_day > Len(c_plan)
    /\ c_result' = CappedAllSynced
    /\ c_pc' = "returned"
    /\ UNCHANGED <<c_service, c_plan, c_hour, c_calendar, c_busy, c_cursor,
                   c_day, c_task, c_attempts, c_requests>>

CappedIdle ==
    /\ c_pc = "off"
    /\ c_service = FALSE
    /\ c_plan = <<>>
    /\ c_hour = 0
    /\ c_calendar = <<>>
    /\ c_busy = <<>>
    /\ c_cursor = 0
    /\ c_day = 0
    /\ c_task = 0
    /\ c_attempts = 0
    /\ c_requests = <<>>
    /\ c_result = ""

\* ================================== overlapping plan generations
\* POST /generate_plan is an async route on the one GameManager; each yield of
\* generate_and_initialize_plan lets the event loop run another request, so
\* a generation interleaves with another one at its yields
Generations == 1..MaxGenerations

\* the plan the writer agent streams for generation g: n days of one task,
\* each task named after the generation and its day
OverlapPlanSizes == {0, 1, 2}
OverlapPlan(g, n) ==
    [day \in 1..n |-> <<[name |-> <<g, day>>, duration |-> 30]>>]
OverlapChoice(g, n) == [name \in {<<g, day>> : day \in 1..n} |-> "Hard"]

\* generate_quiz_for_task(role, task['name'], ...) and
\* generate_training_material(task['name'], ...): content made for a task
QuizAbout(task) ==
    [k \in 1..3 |-> [task |-> task.name, options |-> <<"A", "B">>,
                     correct_index |-> 0]]
MaterialAbout(task) == [explanation |-> task.name]

OverlapInit ==
    /\ tasks = <<>>
    /\ active_quiz = <<>>
    /\ active_task_idx = -1
    /\ quizzes = EmptyDict
    /\ preloading = {}
    /\ gen_pc = "none"
    /\ session = 0
    /\ last = Response("none", 0, FALSE, FALSE)
    /\ training_materials = EmptyDict
    /\ gens = [g \in Generations |-> "idle"]

\* generate_and_initialize_plan up to its first yield: reset_game_state()
OverlapReset(g) ==
    /\ gens[g] = "idle"
    /\ tasks' = <<>>
    /\ active_quiz' = <<>>
    /\ active_task_idx' = -1
    /\ quizzes' = EmptyDict
    /\ training_materials' = EmptyDict
    /\ session' = session + 1
    /\ last' = Response("generate_plan", 200, FALSE, FALSE)
    /\ gens' = [gens EXCEPT ![g] = "streaming"]
    /\ UNCHANGED <<preloading, gen_pc>>

\* after the stream: self.tasks = init_game_state(plan_obj), then the yield
\* of "Plan generated successfully!"
OverlapInitTasks(g) ==
    /\ gens[g] = "streaming"
    /\ \E n \in OverlapPlanSizes :
          tasks' = init_game_state(OverlapPlan(g, n), {}, OverlapChoice(g, n))
    /\ gens' = [gens EXCEPT ![g] = "initialized"]
    /\ UNCHANGED <<active_quiz, active_task_idx, quizzes, preloading, gen_pc,
                   session, last, training_materials>>

\* if self.tasks: yield "Preloading the first quiz ..."; with no tasks the
\* second test fails too and the generator ends
OverlapTestQuiz(g) ==
    /\ gens[g] = "initialized"
    /\ gens' = [gens EXCEPT ![g] = IF tasks # <<>> THEN "quiz" ELSE "done"]
    /\ UNCHANGED <<gvars, training_materials>>

\* task = self.tasks[0] (IndexError ends the generator when the list was
\* emptied meanwhile); self.quizzes[0] = generate_quiz_for_task(...) unless
\* the call raises; then the yields up to "First quiz preloaded!"
OverlapPreloadQuiz(g) ==
    /\ gens[g] = "quiz"
    /\ IF tasks = <<>>
       THEN /\ gens' = [gens EXCEPT ![g] = "crashed"]
            /\ UNCHANGED quizzes
       ELSE /\ gens' = [gens EXCEPT ![g] = "quiz_done"]
            /\ \E ok \in BOOLEAN :
                  quizzes' = IF ok THEN DictPut(quizzes, 0, QuizAbout(tasks[1]))
                             ELSE quizzes
    /\ UNCHANGED <<tasks, active_quiz, active_task_idx, preloading, gen_pc,
                   session, last, training_materials>>

\* if self.tasks: yield "Preloading the first training material ..."
OverlapTestTraining(g) ==
    /\ gens[g] = "quiz_done"
    /\ gens' = [gens EXCEPT ![g] = IF tasks # <<>> THEN "training" ELSE "done"]
    /\ UNCHANGED <<gvars, training_materials>>

\* task = self.tasks[0]; self.training_materials[0] =
\* generate_training_material(...) unless the call raises
OverlapPreloadTraining(g) ==
    /\ gens[g] = "training"
    /\ IF tasks = <<>>
       THEN /\ gens' = [gens EXCEPT ![g] = "crashed"]
            /\ UNCHANGED training_materials
       ELSE /\ gens' = [gens EXCEPT ![g] = "done"]
            /\ \E ok \in BOOLEAN :
                  training_materials' =
                     IF ok THEN DictPut(training_materials, 0,
                                        MaterialAbout(tasks[1]))
                     ELSE training_materials
    /\ UNCHANGED gvars

OverlapIdle ==
    /\ gens = <<>>
    /\ training_materials = EmptyDict

\* ------------------------------------------------------- specifications
FindIdle ==
    /\ f_pc = "off"
    /\ search_start_dt = 0
    /\ duration_minutes = 0
    /\ f_busy = <<>>
    /\ proposed_start = 0
    /\ restarts = 0
    /\ jumped = {}
    /\ f_result = <<>>

SchedIdle ==
    /\ calendar_service = FALSE
    /\ plan = <<>>
    /\ preferred_hour = 0
    /\ calendar = <<>>
    /\ pc = "off"
    /\ busy_slots = <<>>
    /\ cursor = 0
    /\ day_idx = 0
    /\ task_idx = 0
    /\ calls = <<>>
    /\ fetched = <<>>
    /\ fetch_failed = FALSE
    /\ first_failed = 0
    /\ raised = "none"
    /\ sync_status = "none"
    /\ aligned = <<>>

\* the parts of the program a specification leaves out stay idle
GameSideNoRaceIdle ==
    InitGameIdle /\ QuizIdle /\ StatsIdle /\ ParseIdle /\ CappedIdle
    /\ OverlapIdle
GameSideIdle == GameSideNoRaceIdle /\ RaceIdle

Init == SchedInit /\ FindIdle /\ GameSideIdle /\ GameIdle

Next ==
    \/ Connect /\ UNCHANGED notSched
    \/ ScheduleNotAuthenticated /\ UNCHANGED notSched
    \/ ScheduleFetch /\ UNCHANGED notSched
    \/ BeginDay /\ UNCHANGED notSched
    \/ ScheduleTask /\ UNCHANGED notSched
    \/ Return /\ UNCHANGED notSched
    \/ ReportSync /\ UNCHANGED notSched

Spec == Init /\ [][Next]_vars

InitFind == FindInit /\ SchedIdle /\ GameSideIdle /\ GameIdle

NextFind ==
    \/ FindRestart /\ UNCHANGED notFind
    \/ FindReturn /\ UNCHANGED notFind

SpecFind == InitFind /\ [][NextFind]_vars

\* the loop of _find_next_available_slot is straight-line synchronous code:
\* a pass that can run does run
FairSpecFind == SpecFind /\ WF_vars(NextFind)

InitInitGame ==
    /\ InitGameInit
    /\ FindIdle /\ SchedIdle /\ QuizIdle /\ GameIdle
    /\ StatsIdle /\ ParseIdle /\ RaceIdle /\ CappedIdle
    /\ OverlapIdle

NextInitGame == InitGame /\ UNCHANGED notInitGame

SpecInitGame == InitInitGame /\ [][NextInitGame]_vars

InitQuiz ==
    /\ QuizInit
    /\ FindIdle /\ SchedIdle /\ InitGameIdle /\ GameIdle
    /\ StatsIdle /\ ParseIdle /\ RaceIdle /\ CappedIdle
    /\ OverlapIdle

NextQuiz == GradeQuiz /\ UNCHANGED notQuiz

SpecQuiz == InitQuiz /\ [][NextQuiz]_vars

InitGameManager == GameInit /\ FindIdle /\ SchedIdle /\ GameSideIdle

NextGame ==
    \/ GeneratePlanReset /\ UNCHANGED notGame
    \/ GeneratePlanInit /\ UNCHANGED notGame
    \/ GeneratePlanPreload /\ UNCHANGED notGame
    \/ \E task_index \in 0..Len(tasks) :
          StartQuiz(task_index) /\ UNCHANGED notGame
    \/ \E task_index \in preloading :
          PreloadQuizBackground(task_index) /\ UNCHANGED notGame
    \/ \E user_answers \in GameAnswers :
          SubmitQuiz(user_answers) /\ UNCHANGED notGame

SpecGame == InitGameManager /\ [][NextGame]_vars

InitStats ==
    /\ StatsInit
    /\ FindIdle /\ SchedIdle /\ GameIdle
    /\ InitGameIdle /\ QuizIdle /\ ParseIdle /\ RaceIdle /\ CappedIdle
    /\ OverlapIdle

NextStats == CalculateStats /\ UNCHANGED notStats

SpecStats == InitStats /\ [][NextStats]_vars

InitParse ==
    /\ ParseInit
    /\ FindIdle /\ SchedIdle /\ GameIdle
    /\ InitGameIdle /\ QuizIdle /\ StatsIdle /\ RaceIdle /\ CappedIdle
    /\ OverlapIdle

NextParse == ParseMarkdown /\ UNCHANGED notParse

SpecParse == InitParse /\ [][NextParse]_vars

InitRace == RaceInit /\ FindIdle /\ SchedIdle /\ GameSideNoRaceIdle

NextRace ==
    \/ \E task_index \in 0..(Len(tasks) - 1) :
          StartQuiz(task_index) /\ UNCHANGED <<notRace, workers>>
    \/ \E task_index \in preloading :
          PreloadQuizBackground(task_index) /\ UNCHANGED <<notRace, workers>>
    \/ \E w \in DOMAIN workers, user_answers \in RaceAnswers :
          SubmitEnter(w, user_answers) /\ UNCHANGED notRace
    \/ \E w \in DOMAIN workers : SubmitReadIdx(w) /\ UNCHANGED notRace
    \/ \E w \in DOMAIN workers : SubmitReadQuiz(w) /\ UNCHANGED notRace
    \/ \E w \in DOMAIN workers : SubmitGrade(w) /\ UNCHANGED notRace
    \/ \E w \in DOMAIN workers : SubmitStore(w) /\ UNCHANGED notRace

SpecRace == InitRace /\ [][NextRace]_vars

InitCapped ==
    /\ CappedInit
    /\ FindIdle /\ SchedIdle /\ GameIdle
    /\ InitGameIdle /\ QuizIdle /\ StatsIdle /\ ParseIdle /\ RaceIdle
    /\ OverlapIdle

NextCapped ==
    \/ CappedFetch /\ UNCHANGED notCapped
    \/ CappedBeginDay /\ UNCHANGED notCapped
    \/ CappedAttempt /\ UNCHANGED notCapped
    \/ CappedExhausted /\ UNCHANGED notCapped
    \/ CappedReturn /\ UNCHANGED notCapped

SpecCapped == InitCapped /\ [][NextCapped]_vars

InitOverlap ==
    /\ OverlapInit
    /\ FindIdle /\ SchedIdle
    /\ InitGameIdle /\ QuizIdle /\ StatsIdle /\ ParseIdle /\ RaceIdle
    /\ CappedIdle

NextOverlap ==
    \/ \E g \in Generations : OverlapReset(g) /\ UNCHANGED notOverlap
    \/ \E g \in Generations : OverlapInitTasks(g) /\ UNCHANGED notOverlap
    \/ \E g \in Generations : OverlapTestQuiz(g) /\ UNCHANGED notOverlap
    \/ \E g \in Generations : OverlapPreloadQuiz(g) /\ UNCHANGED notOverlap
    \/ \E g \in Generations : OverlapTestTraining(g) /\ UNCHANGED notOverlap
    \/ \E g \in Generations : OverlapPreloadTraining(g) /\ UNCHANGED notOverlap

SpecOverlap == InitOverlap /\ [][NextOverlap]_vars


\* ================================================================ claims
\* the half-open overlap test of two intervals, written out
Overlaps(a, b) == a[1] < b[2] /\ a[2] > b[1]

\* the insert requests issued so far, in the order they were issued
Inserts == SelectSeq(calls, LAMBDA c : c.op = "insert")
Reads == SelectSeq(calls, LAMBDA c : c.op = "list")
RunOver == pc \in {"returned", "raised", "reported"}

\* C1: the interval returned by find_next_free_slot overlaps no input busy
\* slot, for every search start, duration and busy-slot list in any order
C1_ReturnedSlotIsFree ==
    f_pc = "done" =>
        \A i \in 1..Len(f_busy) :
            ~(f_result[1] < f_busy[i][2] /\ f_result[2] > f_busy[i][1])

\* C1 witness: a search over an unsorted list that had to jump has returned
C1_Witness ==
    /\ f_pc = "done"
    /\ restarts >= 1
    /\ Len(f_busy) = 2
    /\ f_busy[1][1] > f_busy[2][1]
    /\ duration_minutes > 0

\* C2: no slot chosen in a run overlaps a busy slot fetched at the start of
\* the run or a slot chosen for an earlier task of the run
C2_NoDoubleBooking ==
    LET ins == Inserts
    IN \A i \in 1..Len(ins) :
          /\ \A b \in 1..Len(fetched) : ~Overlaps(ins[i].slot, fetched[b])
          /\ \A j \in 1..(i - 1) : ~Overlaps(ins[i].slot, ins[j].slot)

\* C2 witness: a finished run of two or more tasks whose first task was
\* pushed off the preferred hour by a fetched busy slot
C2_Witness ==
    /\ pc = "reported"
    /\ Len(Inserts) >= 2
    /\ fetched # <<>>
    /\ Inserts[1].slot[1] > preferred_hour * 60
    /\ Inserts[1].slot[2] > Inserts[1].slot[1]

\* C3: a run over K tasks issues exactly K insert requests, the i-th for the
\* i-th task in day-then-task order, each slot starting no earlier than the
\* previous slot's end plus the 10 minute break
C3_OrderedWithBreak ==
    LET ins == Inserts
        flat == FlatTasks(plan)
    IN /\ \A i \in 1..Len(ins) :
             /\ i <= Len(flat)
             /\ ins[i].task = flat[i].name
             /\ ins[i].slot[2] - ins[i].slot[1] = flat[i].duration
             /\ i > 1 => ins[i].slot[1] >= ins[i - 1].slot[2] + 10
       /\ (calendar_service /\ RunOver) => Len(ins) = Len(flat)

\* C3 witness: a finished run of three tasks over two days against a
\* calendar that holds events
C3_Witness ==
    /\ pc = "reported"
    /\ Len(plan) = 2
    /\ Len(Inserts) = 3
    /\ fetched # <<>>

\* C4: a run entered without a connected calendar fails with the
\* not-authenticated condition and issues no read and no insert
C4_NotAuthenticatedNoCalls ==
    ~calendar_service =>
        /\ calls = <<>>
        /\ pc \in {"idle", "raised", "reported"}
        /\ RunOver => raised = "ConnectionError"
        /\ sync_status # "complete"

\* C4 witness: a run that was entered unconnected and has been reported
C4_Witness ==
    /\ ~calendar_service
    /\ pc = "reported"
    /\ raised = "ConnectionError"
    /\ plan # <<>>

\* the slots a run chooses when every insert succeeds
RECURSIVE RefTasks(_, _, _, _)
RefTasks(day_tasks, cur, busy, acc) ==
    IF day_tasks = <<>> THEN [cur |-> cur, busy |-> busy, slots |-> acc]
    ELSE LET slot == find_next_available_slot(cur, Head(day_tasks).duration, busy)
         IN RefTasks(Tail(day_tasks), NextCursor(slot), AddBusy(busy, slot),
                     Append(acc, slot))

RECURSIVE RefDays(_, _, _, _, _)
RefDays(days, cur, busy, ph, acc) ==
    IF days = <<>> THEN acc
    ELSE LET r == RefTasks(Head(days), AlignToPreferredHour(cur, ph), busy, acc)
         IN RefDays(Tail(days), r.cur, r.busy, ph, r.slots)

RefSlots == RefDays(plan, 0, fetched, preferred_hour, <<>>)

C6_OutcomeMarksFailedInserts ==
    (pc = "reported" /\ first_failed # 0) => sync_status # "complete"

\* C7: when the batch read fails the run is aborted with no insert request
\* (smart_schedule_quests takes no option that selects degrading)
C7_FetchFailureAborts ==
    fetch_failed =>
        /\ Inserts = <<>>
        /\ pc # "returned"
        /\ sync_status # "complete"

\* C8: an authenticated run reads the calendar exactly once, before the
\* first insert request, and never once per task
C8_SingleBatchRead ==
    /\ Len(Reads) <= 1
    /\ calls # <<>> => calls[1].op = "list"
    /\ (calendar_service /\ pc # "idle") => Len(Reads) = 1

\* C8 witness: a finished authenticated run with several insert requests
C8_Witness ==
    /\ pc = "reported"
    /\ sync_status = "complete"
    /\ Len(Inserts) >= 2
    /\ ~fetch_failed

\* C9: the search terminates; every restart moves proposed_start strictly
\* forward, a slot that caused a jump never conflicts again, and there are
\* at most as many restarts as busy slots
C9_SearchTerminates ==
    /\ <>(f_pc = "done")
    /\ [](/\ restarts <= Len(f_busy)
          /\ Cardinality(jumped) = restarts
          /\ \A i \in jumped :
                ~(proposed_start < f_busy[i][2]
                  /\ proposed_start + duration_minutes > f_busy[i][1]))
    /\ [][restarts' # restarts => proposed_start' > proposed_start]_vars

\* C9 witness: a search that restarted once for every busy slot of its list
C9_Witness ==
    /\ f_pc = "done"
    /\ Len(f_busy) >= 2
    /\ restarts = Len(f_busy)

\* C10: with no busy slot the search returns exactly
\* (search_start, search_start + duration), also for duration 0
C10_EmptyListReturnsStart ==
    (f_pc = "done" /\ f_busy = <<>>) =>
        f_result = <<search_start_dt, search_start_dt + duration_minutes>>

\* C10 witness: a zero-length search over the empty list has returned
C10_Witness ==
    /\ f_pc = "done"
    /\ f_busy = <<>>
    /\ duration_minutes = 0
    /\ search_start_dt > 0

\* ------------------------------------------------------------ game claims
\* the state of the LOCKED -> UNLOCKED -> COMPLETED machine a status string
\* stands for, whichever of the code's spellings it has
StateOf(status) ==
    IF status = StatusLockedInit THEN "LOCKED"
    ELSE IF status \in {StatusUnlockedInit, StatusUnlocked} THEN "UNLOCKED"
    ELSE IF status = StatusCompleted THEN "COMPLETED"
    ELSE "OTHER"

\* C11: right after initialization on a plan with n >= 1 tasks there are n
\* game tasks with ids 0..n-1 in day-then-task order, task 0 is UNLOCKED and
\* every other task is LOCKED
C11_InitialTasks ==
    LET flat == FlatTasks(i_plan)
    IN (i_pc = "returned" /\ Len(flat) >= 1) =>
          /\ Len(i_tasks) = Len(flat)
          /\ \A k \in 1..Len(flat) :
                /\ i_tasks[k].id = k - 1
                /\ i_tasks[k].name = flat[k].name
                /\ StateOf(i_tasks[k].status) =
                      IF k = 1 THEN "UNLOCKED" ELSE "LOCKED"

\* C11 witness: three tasks spread over two days have been initialized
C11_Witness ==
    /\ i_pc = "returned"
    /\ Len(i_plan) = 2
    /\ Len(i_tasks) = 3
    /\ i_tasks[3].day = 2

\* the task list as a freshly initialized session holds it
FreshTasks ==
    /\ tasks # <<>>
    /\ \A k \in 1..Len(tasks) :
          StateOf(tasks[k].status) = IF k = 1 THEN "UNLOCKED" ELSE "LOCKED"

\* C12: a passing submission for active task i sets task i to COMPLETED,
\* sets task i+1 to UNLOCKED when it exists and was LOCKED, and leaves the
\* status, lives and XP reward of every other task unchanged
C12_PassingSubmissionFrame ==
    [][\A user_answers \in GameAnswers :
          (SubmitQuiz(user_answers) /\ last'.code = 200 /\ last'.passed) =>
             LET i == active_task_idx + 1
             IN /\ Len(tasks') = Len(tasks)
                /\ StateOf(tasks'[i].status) = "COMPLETED"
                /\ (i + 1 <= Len(tasks)
                    /\ StateOf(tasks[i + 1].status) = "LOCKED")
                      => StateOf(tasks'[i + 1].status) = "UNLOCKED"
                /\ \A k \in 1..Len(tasks) :
                      (/\ k # i
                       /\ ~(k = i + 1 /\ StateOf(tasks[k].status) = "LOCKED"))
                      => /\ StateOf(tasks'[k].status) = StateOf(tasks[k].status)
                         /\ tasks'[k].xp_reward = tasks[k].xp_reward
                         /\ ("lives" \in DOMAIN tasks[k]
                                => tasks'[k].lives = tasks[k].lives)]_vars

\* C13: within a session a task that is COMPLETED stays COMPLETED over every
\* later start-quiz and submit operation
C13_CompletedStaysCompleted ==
    [][session' = session =>
          \A k \in 1..Len(tasks) :
             StateOf(tasks[k].status) = "COMPLETED" =>
                /\ k <= Len(tasks')
                /\ StateOf(tasks'[k].status) = "COMPLETED"]_vars

\* C14: every status change of a game task is LOCKED to UNLOCKED or UNLOCKED
\* to COMPLETED
C14_LinearStatusChanges ==
    [][(session' = session /\ Len(tasks') = Len(tasks)) =>
          \A k \in 1..Len(tasks) :
             \/ StateOf(tasks'[k].status) = StateOf(tasks[k].status)
             \/ /\ StateOf(tasks[k].status) = "LOCKED"
                /\ StateOf(tasks'[k].status) = "UNLOCKED"
             \/ /\ StateOf(tasks[k].status) = "UNLOCKED"
                /\ StateOf(tasks'[k].status) = "COMPLETED"]_vars

\* C15: starting a quiz for a LOCKED task is rejected and leaves the task
\* list, the active task index and the active quiz as they were
C15_LockedStartRejected ==
    [][\A task_index \in 0..(Len(tasks) - 1) :
          (/\ StartQuiz(task_index)
           /\ StateOf(tasks[task_index + 1].status) = "LOCKED")
          => /\ last'.code # 200
             /\ UNCHANGED <<tasks, active_task_idx, active_quiz>>]_vars

\* C16: starting a quiz for a COMPLETED task changes neither its status nor
\* the active task index nor the active quiz
C16_CompletedStartChangesNothing ==
    [][\A task_index \in 0..(Len(tasks) - 1) :
          (/\ StartQuiz(task_index)
           /\ StateOf(tasks[task_index + 1].status) = "COMPLETED")
          => UNCHANGED <<tasks, active_task_idx, active_quiz>>]_vars

\* C17: on a freshly initialized task list each failing submission for
\* task 0 lowers that task's lives by exactly one, reports game_over exactly
\* when lives reach 0, and leaves task 0 not COMPLETED and task 1 not UNLOCKED
C17_FailingSubmissionTakesALife ==
    [][\A user_answers \in GameAnswers :
          (/\ SubmitQuiz(user_answers)
           /\ FreshTasks
           /\ active_task_idx = 0
           /\ active_quiz # <<>>
           /\ ~Passed(grade_quiz(user_answers, active_quiz), Len(active_quiz)))
          => /\ last'.code = 200
             /\ ~last'.passed
             /\ "lives" \in DOMAIN tasks[1]
             /\ tasks'[1].lives = tasks[1].lives - 1
             /\ last'.game_over <=> (tasks'[1].lives <= 0)
             /\ FreshTasks']_vars

\* C24: a start-quiz request whose task index is outside [0, len(tasks)) is
\* answered with the invalid-request status and changes neither the tasks,
\* the active task index, the active quiz, the quiz cache nor the set of
\* started prefetches
C24_InvalidIndexRejected ==
    [][\A task_index \in 0..Len(tasks) :
          (StartQuiz(task_index) /\ ~(task_index < Len(tasks))) =>
             /\ last'.op = "start_quiz"
             /\ last'.code = 400
             /\ UNCHANGED <<tasks, active_task_idx, active_quiz, quizzes,
                            preloading>>]_vars

\* C24 witness: a request was rejected in a session of two tasks that has an
\* active quiz and a cached quiz
C24_Witness ==
    /\ last.op = "start_quiz"
    /\ last.code = 400
    /\ Len(tasks) = 2
    /\ active_task_idx = 0
    /\ active_quiz # <<>>
    /\ 0 \in DOMAIN quizzes

\* C18: every game task created by initialization carries a lives counter
\* equal to 3
C18_EveryTaskHasLives ==
    i_pc = "returned" =>
        \A k \in 1..Len(i_tasks) :
            /\ "lives" \in DOMAIN i_tasks[k]
            /\ i_tasks[k].lives = 3

C20_TwoThirdsPasses ==
    (q_pc = "returned" /\ Len(q_quiz) \in 3..6 /\ 3 * q_score >= 2 * Len(q_quiz))
        => q_passed

\* C21: the grade is the number of question positions that have an answer
\* equal to the correct option; positions without an answer count as
\* non-matches and answers beyond the last question are ignored
C21_GradeCountsMatches ==
    q_pc = "returned" =>
        q_score = Cardinality(
            {i \in 1..Len(q_quiz) :
                /\ i \in DOMAIN q_answers
                /\ q_answers[i] =
                      q_quiz[i].options[q_quiz[i].correct_index + 1]})

\* C21 witness: an answer list shorter than the quiz was graded and scored
C21_Witness ==
    /\ q_pc = "returned"
    /\ Len(q_quiz) = 3
    /\ Len(q_answers) = 1
    /\ q_score = 1

\* C23: a task whose name holds the boss marker gets difficulty Hardest and
\* xp_reward = trunc(1.5 * (150 + duration // 2)), 255 for 40 minutes; any
\* other task gets base(difficulty) + duration // 2 with base 50, 100 or 150
C23_XpReward ==
    i_pc = "returned" =>
        \A k \in 1..Len(i_tasks) :
            LET t == FlatTasks(i_plan)[k]
                g == i_tasks[k]
                half == (t.duration - (t.duration % 2)) \div 2
                base == CASE g.difficulty = "Normal" -> 50
                          [] g.difficulty = "Hard" -> 100
                          [] g.difficulty = "Hardest" -> 150
            IN IF t.name \in i_mock
               THEN /\ g.difficulty = "Hardest"
                    /\ 2 * g.xp_reward <= 3 * (150 + half)
                    /\ 3 * (150 + half) < 2 * g.xp_reward + 2
                    /\ t.duration = 40 => g.xp_reward = 255
               ELSE /\ g.difficulty = i_choice[t.name]
                    /\ g.xp_reward = base + half

\* C23 witness: a 47 minute boss task (173 * 1.5 = 259.5) got 259 next to a
\* Normal task of 40 minutes
C23_Witness ==
    /\ i_pc = "returned"
    /\ Len(i_tasks) = 2
    /\ i_tasks[1].type = "BOSS BATTLE"
    /\ i_tasks[1].xp_reward = 259
    /\ i_tasks[2].difficulty = "Normal"
    /\ i_tasks[2].xp_reward = 70

\* the sum of xp_reward over the positions S of a task list
RECURSIVE RewardSum(_, _)
RewardSum(ts, S) ==
    IF S = {} THEN 0
    ELSE LET k == CHOOSE k \in S : TRUE
         IN ts[k].xp_reward + RewardSum(ts, S \ {k})

\* C22: total_xp is the sum of xp_reward over the COMPLETED tasks,
\* level = 1 + floor(total_xp / 500), xp_in_level = total_xp mod 500, and the
\* title is the entry min(level - 1, last index) of the title list; rewards
\* summing to 650 give level 2 and xp_in_level 150
C22_PlayerStats ==
    st_pc = "returned" =>
        LET total == RewardSum(st_tasks,
                         {k \in 1..Len(st_tasks) :
                             StateOf(st_tasks[k].status) = "COMPLETED"})
            level == st_stats.level
        IN /\ st_stats.current_xp = total
           /\ level >= 1
           /\ 500 * (level - 1) <= total
           /\ total < 500 * level
           /\ st_stats.xp_in_level = total - 500 * (level - 1)
           /\ \E i \in 1..Len(Titles) :
                 /\ st_stats.title = Titles[i]
                 /\ i = IF level <= Len(Titles) THEN level ELSE Len(Titles)
           /\ total = 650 => (level = 2 /\ st_stats.xp_in_level = 150)

\* C22 witness: completed rewards of 255, 255 and 140 were summed to 650
C22_Witness ==
    /\ st_pc = "returned"
    /\ st_stats.current_xp = 650
    /\ st_stats.level = 2
    /\ st_stats.xp_in_level = 150

\* the day-header lines of the input and the task lines that follow a header
\* before the next header or the end of the input
HeaderLines ==
    {i \in 1..Len(markdown_lines) :
        markdown_lines[i].hash /\ markdown_lines[i].day # NoMatch}
TaskLinesOf(h) ==
    {j \in (h + 1)..Len(markdown_lines) :
        /\ markdown_lines[j].task
        /\ \A m \in (h + 1)..j : m \notin HeaderLines}

\* the parsed plan holds one DailyPlan per header of K, in header order,
\* each with the header's day index and exactly its task lines in source order
PlanHoldsExactly(K) ==
    /\ Len(p_plan) = Cardinality(K)
    /\ \A h \in K :
          LET n == Cardinality({k \in K : k <= h})
              ts == p_plan[n].tasks
              S == TaskLinesOf(h)
          IN /\ p_plan[n].day = markdown_lines[h].day
             /\ Len(ts) = Cardinality(S)
             /\ \A m \in 1..Len(ts) :
                   /\ ts[m].name \in S
                   /\ Cardinality({j \in S : j <= ts[m].name}) = m

\* C25: parse returns one DailyPlan per day header that is followed by at
\* least one task line before the next header or the end of input, in header
\* order, each holding exactly its task lines in source order
C25_OneDailyPlanPerHeader ==
    p_pc = "returned" =>
        PlanHoldsExactly({h \in HeaderLines : TaskLinesOf(h) # {}})

\* the headers "Day 0" aside, the parsed plan is the one C25 describes
PositiveHeadersParsedExactly ==
    p_pc = "returned" =>
        PlanHoldsExactly({h \in HeaderLines :
                             /\ markdown_lines[h].day >= 1
                             /\ TaskLinesOf(h) # {}})

\* C26: the day indices of the parsed daily_plans never decrease in output
\* order and no day index appears twice
C26_DayIndicesIncrease ==
    p_pc = "returned" =>
        \A m, n \in 1..Len(p_plan) : m < n => p_plan[m].day < p_plan[n].day

\* C27: two failing submissions for the same active task that run
\* concurrently each take one life: both are answered, the task's lives end
\* two lower (the two reported lives_left values are the final value and the
\* final value plus one), and exactly the submission that brings lives to 0
\* or below reports game_over
C27_ConcurrentFailuresEachTakeALife ==
    \A v, w \in DOMAIN workers :
        (/\ v # w
         /\ workers[v].pc = "done" /\ workers[w].pc = "done"
         /\ workers[v].code # 400 /\ workers[w].code # 400
         /\ ~workers[v].passed /\ ~workers[w].passed
         /\ workers[v].idx = workers[w].idx)
        => /\ workers[v].code = 200
           /\ workers[w].code = 200
           /\ "lives" \in DOMAIN tasks[workers[v].idx + 1]
           /\ {workers[v].lives_left, workers[w].lives_left} =
                 {tasks[workers[v].idx + 1].lives,
                  tasks[workers[v].idx + 1].lives + 1}
           /\ workers[v].game_over <=> workers[v].lives_left <= 0

\* C28: the search returns the same interval for a busy-slot list and for
\* that list sorted by start ascending, for every search start and duration
\* (stated for lists whose starts differ, where every sort by start agrees)
C28_SortedListSameResult ==
    (/\ f_pc = "done"
     /\ \A i, j \in 1..Len(f_busy) : i # j => f_busy[i][1] # f_busy[j][1])
    => f_result = find_next_available_slot(search_start_dt, duration_minutes,
                                           SortSlots(f_busy))

\* C29: the cursor never moves backward: every assignment to it (the day
\* alignment, and slot end plus break after each task) yields a value not
\* below its previous value, and every returned slot starts no earlier than
\* the cursor it was searched from
C29_CursorNeverMovesBack ==
    [][/\ cursor' >= cursor
       /\ Len(Inserts') > Len(Inserts) =>
             LET slot == Inserts'[Len(Inserts')].slot
             IN /\ slot[1] >= cursor
                /\ cursor' >= slot[2]]_vars

\* C29 witness: the second day of a run was aligned to the preferred hour of
\* the next day, with the first day's task placed behind a calendar event
C29_Witness ==
    /\ pc = "task"
    /\ day_idx = 2
    /\ preferred_hour = 9
    /\ cursor = MinutesPerDay + 9 * MinutesPerHour
    /\ Len(Inserts) >= 1
    /\ Inserts[1].slot[1] > 9 * MinutesPerHour

C31_SlotsInsideHorizon ==
    \A i \in 1..Len(Inserts) : Inserts[i].slot[2] <= HorizonEnd(plan)

\* C32: in the scheduler variant that caps the slot search at 50 attempts per
\* task, a run never reports that all quests were synced when some task of
\* the plan received no insert request
C32_ExhaustedSearchIsReported ==
    c_result = CappedAllSynced =>
        \A t \in 1..Len(FlatTasks(c_plan)) :
            \E r \in 1..Len(c_requests) : c_requests[r] = t

\* C33: in every reachable state of a session with n tasks there is a k in
\* 0..n such that tasks 0..k-1 are COMPLETED, task k (when k < n) is UNLOCKED
\* and tasks k+1..n-1 are LOCKED
C33_CompletedPrefixOneUnlocked ==
    \E k \in 0..Len(tasks) :
        \A j \in 0..(Len(tasks) - 1) :
            StateOf(tasks[j + 1].status) =
                IF j < k THEN "COMPLETED"
                ELSE IF j = k THEN "UNLOCKED" ELSE "LOCKED"

\* C34: within a session total_xp and level never decrease across start-quiz
\* and submit operations, and each only grows when a task becomes COMPLETED
C34_XpAndLevelNeverDecrease ==
    [][session' = session =>
          LET before == calculate_player_stats(tasks)
              after == calculate_player_stats(tasks')
          IN /\ after.current_xp >= before.current_xp
             /\ after.level >= before.level
             /\ (after.current_xp > before.current_xp
                 \/ after.level > before.level) =>
                   \E k \in 1..Len(tasks') :
                      /\ StateOf(tasks'[k].status) = "COMPLETED"
                      /\ (k > Len(tasks)
                          \/ StateOf(tasks[k].status) # "COMPLETED")]_vars

C36_ActiveQuizIsCachedQuiz ==
    \/ /\ active_task_idx = -1
       /\ active_quiz = <<>>
    \/ /\ 0 <= active_task_idx
       /\ active_task_idx < Len(tasks)
       /\ active_quiz # <<>>
       /\ active_task_idx \in DOMAIN quizzes
       /\ active_quiz = quizzes[active_task_idx]

\* C37: within a session, once a quiz is cached for a task index it is never
\* replaced until the next session reset, whatever the interleaving of
\* start-quiz requests, background prefetches and the first-quiz preload of
\* a plan generation that is still running
C37_CachedQuizNeverReplaced ==
    [][session' = session =>
          \A k \in DOMAIN quizzes :
             /\ k \in DOMAIN quizzes'
             /\ quizzes'[k] = quizzes[k]]_vars

\* C38: under any interleaving of a quiz submission with a start-quiz request
\* for a different task, the task whose status or lives the submission
\* changes is the task whose quiz the answers were graded against
C38_SubmissionGradesItsOwnTask ==
    \A w \in DOMAIN workers :
        (/\ workers[w].pc = "done"
         /\ workers[w].code = 200)
        => \A q \in 1..Len(workers[w].quiz_data) :
              workers[w].quiz_data[q].task = workers[w].idx

\* C39: starting a plan generation replaces the whole game state: right
\* after the reset the task list, the active quiz, the active task index,
\* the quiz cache and the training-material cache are empty or -1, and once
\* a plan is initialized every cached quiz and training material was made
\* for a task of the installed task list, also when a second generation
\* starts while an earlier one is still streaming
C39_GenerationReplacesWholeState ==
    [][/\ (\E g \in Generations : OverlapReset(g)) =>
             /\ tasks' = <<>>
             /\ active_quiz' = <<>>
             /\ active_task_idx' = -1
             /\ quizzes' = EmptyDict
             /\ training_materials' = EmptyDict
       /\ tasks' # <<>> =>
             /\ \A k \in DOMAIN quizzes' :
                   /\ k < Len(tasks')
                   /\ quizzes'[k] = QuizAbout(tasks'[k + 1])
             /\ \A k \in DOMAIN training_materials' :
                   /\ k < Len(tasks')
                   /\ training_materials'[k] = MaterialAbout(tasks'[k + 1])]_vars

====
